---------------------------- MODULE Spec2Model ----------------------------
(***************************************************************************)
(* State-machine model of FunctionsNd.py: the constructors of ConvNd and   *)
(* ConvTransposeNd and their forward passes (leading-axis bookkeeping,     *)
(* overlap-add accumulation into frame_results, stacking, bias add).       *)
(*                                                                         *)
(* Tensors are symbolic.  A tensor produced by child i on input slice j    *)
(* is the bag {<<i, j>>}; elementwise addition is bag union; the number of *)
(* times a bias vector has been added to the elements of a channel is kept *)
(* per channel.  Python tuples are sequences, Python index x is x + 1.     *)
(* Inputs are cubic (every spatial axis has the leading axis' length) and  *)
(* the entries of one kernel_size / stride / padding tuple are equal.      *)
(* Device placement, groups, in_channels, padding_mode and the initializer *)
(* callbacks do not influence the index arithmetic and are left out.       *)
(***************************************************************************)
EXTENDS Integers, Sequences, FiniteSets, Bags, TLC

\* ------------------------------------------------------------------ bounds
MaxDims == 5
MaxK == 3
MaxStride == 3
MaxPad == 1
MaxLen == 3

ClassNames == {"ConvNd", "ConvTransposeNd"}
Ranks == {0, -1}
Dilations == {1, 2}
OutChannels == {1, 2}
LenDeltas == {0, 1}
CallNumbers == {1, 2}

VARIABLES
    call,           \* the constructor call: its arguments after lines 27-32
    self,           \* the constructed instance, or NoInstance
    error,          \* the exception raised by the last operation, or "none"
    pc,             \* "new", "failed", "ready", "loop", "done", "raised"
    ncalls,         \* forward calls started on the instance
    input,          \* leading-axis length of the caller's input tensor
    padding,        \* forward's local padding list
    size_i,         \* forward's size_i
    size_o,         \* forward's size_o
    i,              \* kernel-offset loop variable
    j,              \* input-position loop variable
    frame_results,  \* out_frame -> reference of the tensor held in that slot
    empty_frames,   \* out_frame -> 0 (None) or 1
    heap,           \* tensor reference -> tensor value
    recorded,       \* history: the <<i, j, out_frame>> recorded so far
    result,         \* the tensor returned by the last completed forward
    prev            \* input and result of the completed call before it

vars == <<call, self, error, pc, ncalls, input, padding, size_i, size_o, i, j,
          frame_results, empty_frames, heap, recorded, result, prev>>

NoInstance == [cls |-> "none"]
NoTensor == <<>>

\* ----------------------------------------------------- Python tuple helpers
\* t[x] for a Python tuple t and a non-negative index x
At(t, x) == t[x + 1]

\* t[1:]
Rest(t) == IF Len(t) = 0 THEN <<>> ELSE Tail(t)

\* tuple(v for _ in range(n))
Repeat(v, n) == [x \in 1..n |-> v]

\* t[idx] with Python's wrap-around of negative indices; ok = FALSE is IndexError
PyIndex(t, idx) ==
    IF idx >= 0 /\ idx < Len(t) THEN [ok |-> TRUE, val |-> t[idx + 1]]
    ELSE IF idx < 0 /\ idx >= -Len(t) THEN [ok |-> TRUE, val |-> t[idx + Len(t) + 1]]
    ELSE [ok |-> FALSE, val |-> "IndexError"]

\* the tuple of base primitives conv_f is picked from
BasePrimitives(cls) ==
    IF cls = "ConvNd" THEN <<"Conv1d", "Conv2d", "Conv3d">>
    ELSE <<"ConvTranspose1d", "ConvTranspose2d", "ConvTranspose3d">>

\* number of spatial dimensions a base primitive convolves over
PrimitiveDims(name) ==
    IF name \in {"Conv1d", "ConvTranspose1d"} THEN 1
    ELSE IF name \in {"Conv2d", "ConvTranspose2d"} THEN 2
    ELSE 3

\* ------------------------------------------------------------- constructor
\* the assertions on the constructor arguments; "none" when they all pass
ArgsErrorNoPadding(a) ==
    IF Len(a.kernel_size) # a.num_dims THEN "AssertionError"
    ELSE IF Len(a.stride) # a.num_dims THEN "AssertionError"
    ELSE IF a.dilation # 1 THEN "AssertionError"
    ELSE "none"

ArgsError(a) ==
    IF Len(a.kernel_size) # a.num_dims THEN "AssertionError"
    ELSE IF Len(a.stride) # a.num_dims THEN "AssertionError"
    ELSE IF Len(a.padding) # a.num_dims THEN "AssertionError"
    ELSE IF a.dilation # 1 THEN "AssertionError"
    ELSE "none"

\* a base primitive built with bias enabled
LeafWithBias(conv_f, a) ==
    [cls |-> conv_f, leaf |-> TRUE, bias |-> TRUE,
     kernel_size |-> Rest(a.kernel_size), stride |-> Rest(a.stride),
     padding |-> Rest(a.padding)]

\* self.conv_f(..., bias=False, kernel_size=self.kernel_size[1:], ...)
Leaf(conv_f, a) ==
    [cls |-> conv_f, leaf |-> TRUE, bias |-> FALSE,
     kernel_size |-> Rest(a.kernel_size), stride |-> Rest(a.stride),
     padding |-> Rest(a.padding)]

\* the keyword arguments of the nested constructor call
NestedArgs(a) ==
    [cls |-> a.cls, out_channels |-> a.out_channels, use_bias |-> a.use_bias,
     num_dims |-> a.num_dims - 1, kernel_size |-> Rest(a.kernel_size),
     stride |-> Rest(a.stride), rank |-> a.rank - 1,
     padding |-> Rest(a.padding), dilation |-> 1]

\* __init__: [error, obj]; obj is the instance when error = "none"
RECURSIVE Build(_)
Build(a) ==
    LET max_dims == a.num_dims - 1
        sel == PyIndex(BasePrimitives(a.cls), max_dims - 1)
        nested == Build(NestedArgs(a))
    IN  IF ~sel.ok THEN [error |-> "IndexError", obj |-> NoInstance]
        ELSE IF ArgsError(a) # "none"
            THEN [error |-> ArgsError(a), obj |-> NoInstance]
        ELSE IF a.num_dims - 1 # max_dims /\ nested.error # "none"
            THEN [error |-> nested.error, obj |-> NoInstance]
        ELSE [error |-> "none",
              obj |-> [cls |-> a.cls, leaf |-> FALSE,
                       rank |-> a.rank, out_channels |-> a.out_channels,
                       num_dims |-> a.num_dims, kernel_size |-> a.kernel_size,
                       stride |-> a.stride, padding |-> a.padding,
                       use_bias |-> a.use_bias, bias |-> a.use_bias,
                       conv_f |-> sel.val,
                       conv_layers |->
                           [x \in 1..At(a.kernel_size, 0) |->
                               IF a.num_dims - 1 # max_dims
                               THEN nested.obj
                               ELSE Leaf(sel.val, a)]]]


\* ------------------------------------------------------------------ tensors
Channels(inst) == 0..(inst.out_channels - 1)

\* torch.zeros(...): no contribution, no bias
ZeroTensor(inst) == [conv |-> EmptyBag, bias |-> [c \in Channels(inst) |-> 0]]

\* elementwise a + b
TensorAdd(a, b) ==
    [conv |-> a.conv (+) b.conv, bias |-> [c \in DOMAIN a.bias |-> a.bias[c] + b.bias[c]]]

\* reference of the tensor child i returns for input slice j
FrameRef(si, ki, ji) == 1 + ki * At(si, 0) + ji

\* ------------------------------------------------------------------ forward
\* the instance and the locals after the padding step and the shape shortcuts
\* (ConvNd: lines 120-134; ConvTransposeNd, which has no padding step and
\* reads self.padding: lines 310-312), for a cubic input of side len
ForwardEntryZeroesSelf(inst, len) ==
    LET shape == Repeat(len, inst.num_dims)
        pads == inst.cls = "ConvNd" /\ inst.rank = 0
    IN  [self |-> IF pads THEN [inst EXCEPT !.padding[1] = 0] ELSE inst,
         padding |-> inst.padding,
         size_i |-> IF pads THEN [shape EXCEPT ![1] = @ + 2 * At(inst.padding, 0)]
                    ELSE shape]

ForwardEntry(inst, len) ==
    LET shape == Repeat(len, inst.num_dims)
        pads == inst.cls = "ConvNd" /\ inst.rank = 0
    IN  [self |-> inst,
         padding |-> IF pads THEN [inst.padding EXCEPT ![1] = 0] ELSE inst.padding,
         size_i |-> IF pads THEN [shape EXCEPT ![1] = @ + 2 * At(inst.padding, 0)]
                    ELSE shape]

\* size_o with the "+ 1" of the output-size formulas left out
SizeONoPlusOne(inst, pad, si) ==
    [x \in 1..Len(si) |->
        IF inst.cls = "ConvNd"
        THEN (si[x] + 2 * pad[x] - inst.kernel_size[x]) \div inst.stride[x]
        ELSE (si[x] - 1) * inst.stride[x] - 2 * inst.padding[x]
             + (inst.kernel_size[x] - 1)]

\* size_o (ConvNd line 137, ConvTransposeNd line 315)
SizeO(inst, pad, si) ==
    [x \in 1..Len(si) |->
        IF inst.cls = "ConvNd"
        THEN ((si[x] + 2 * pad[x] - inst.kernel_size[x]) \div inst.stride[x]) + 1
        ELSE (si[x] - 1) * inst.stride[x] - 2 * inst.padding[x]
             + (inst.kernel_size[x] - 1) + 1]

\* the loop body's index computation with the even-kernel term left out
OutFrameNoParity(inst, si, so, ki, ji) ==
    LET k == At(inst.kernel_size, 0)
        s == At(inst.stride, 0)
        size_ons0 == At(si, 0) - k + 1
        raw == ji - (ki - k \div 2) - ((At(si, 0) - size_ons0) \div 2)
        tr == (ki + k \div 2) + ji - k \div 2 - At(inst.padding, 0)
    IN  IF inst.cls = "ConvNd"
        THEN [out_frame |-> raw \div s,
              skip |-> (raw \div s) < 0 \/ (raw \div s) >= At(so, 0) \/ (raw % s) # 0]
        ELSE [out_frame |-> tr, skip |-> tr < 0 \/ tr >= At(so, 0)]

\* out_frame and the continue test (ConvNd lines 154-159, ConvTransposeNd
\* lines 327-330)
OutFrame(inst, si, so, ki, ji) ==
    LET k == At(inst.kernel_size, 0)
        s == At(inst.stride, 0)
        size_ons0 == At(si, 0) - k + 1
        raw == ji - (ki - k \div 2) - ((At(si, 0) - size_ons0) \div 2) - (1 - (k % 2))
        k_center_position == raw % s
        tr == (ki + k \div 2) + ji - k \div 2 - At(inst.padding, 0)
    IN  IF inst.cls = "ConvNd"
        THEN [out_frame |-> raw \div s,
              skip |-> (raw \div s) < 0 \/ (raw \div s) >= At(so, 0)
                       \/ k_center_position # 0]
        ELSE [out_frame |-> tr, skip |-> tr < 0 \/ tr >= At(so, 0)]

\* self.conv_layers[i](conv_input) on the slice at position j, which has
\* Len(si) - 1 spatial axes.  A base primitive raises unless it convolves over
\* exactly that many axes with a kernel of that many entries.  A nested
\* instance, which line 85 never selects, is summarised by its own level: its
\* forward adds its bias once.
ChildApply(inst, si, ki, ji) ==
    LET child == inst.conv_layers[ki + 1]
        dims == Len(si) - 1
    IN  [ok |-> IF child.leaf
                THEN PrimitiveDims(child.cls) = dims /\ Len(child.kernel_size) = dims
                ELSE child.num_dims = dims,
         val |-> [conv |-> SetToBag({<<ki, ji>>}),
                  bias |-> [c \in Channels(inst) |-> IF child.bias THEN 1 ELSE 0]]]

\* the store with the empty_frames test left out: always an in-place add
RecordFrameInPlace(fr, ef, hp, f, ref, val) ==
    [frame_results |-> fr,
     empty_frames |-> [ef EXCEPT ![f] = 1],
     heap |-> [hp EXCEPT ![fr[f]] = TensorAdd(@, val)]]

\* first record assigns the slot, later records add in place to the tensor
\* the slot references (ConvNd lines 170-174, ConvTransposeNd lines 340-344);
\* empty_frames holds 0 for None
RecordFrame(fr, ef, hp, f, ref, val) ==
    IF ef[f] = 0
    THEN [frame_results |-> [fr EXCEPT ![f] = ref],
          empty_frames |-> [ef EXCEPT ![f] = 1],
          heap |-> (ref :> val) @@ hp]
    ELSE [frame_results |-> fr,
          empty_frames |-> ef,
          heap |-> [hp EXCEPT ![fr[f]] = TensorAdd(@, val)]]

\* torch.stack(frame_results, dim=2): the values the slots reference
Stack(fr, hp) == [f \in DOMAIN fr |-> hp[fr[f]]]

\* the bias loop over the channels of the stacked result
AddBias(inst, res) ==
    IF inst.use_bias
    THEN [f \in DOMAIN res |->
            [res[f] EXCEPT !.bias = [c \in DOMAIN @ |-> @[c] + 1]]]
    ELSE res

\* ------------------------------------------------------------------ actions
Init ==
    /\ call = [cls |-> "none"]
    /\ self = NoInstance
    /\ error = "none"
    /\ pc = "new"
    /\ ncalls = 0
    /\ input = 0
    /\ padding = <<>>
    /\ size_i = <<>>
    /\ size_o = <<>>
    /\ i = 0
    /\ j = 0
    /\ frame_results = <<>>
    /\ empty_frames = <<>>
    /\ heap = <<>>
    /\ recorded = {}
    /\ result = NoTensor
    /\ prev = [input |-> 0, result |-> NoTensor]

\* a constructor call; scalar arguments become num_dims-tuples (lines 27-32),
\* tuple arguments keep their own length
Construct ==
    /\ pc = "new"
    /\ \E cls \in ClassNames, nd \in 1..MaxDims, k \in 1..MaxK, s \in 1..MaxStride,
          p \in 0..MaxPad, dk \in LenDeltas, ds \in LenDeltas, dp \in LenDeltas,
          dil \in Dilations, rk \in Ranks, ub \in BOOLEAN, oc \in OutChannels :
        LET a == [cls |-> cls, out_channels |-> oc, use_bias |-> ub,
                  num_dims |-> nd, kernel_size |-> Repeat(k, nd + dk),
                  stride |-> Repeat(s, nd + ds), rank |-> rk,
                  padding |-> Repeat(p, nd + dp), dilation |-> dil]
            b == Build(a)
        IN  /\ call' = a
            /\ self' = b.obj
            /\ error' = b.error
            /\ pc' = IF b.error = "none" THEN "ready" ELSE "failed"
    /\ UNCHANGED <<ncalls, input, padding, size_i, size_o, i, j, frame_results,
                   empty_frames, heap, recorded, result, prev>>

\* forward up to the allocation of frame_results and empty_frames
ForwardBegin ==
    /\ pc \in {"ready", "done", "raised"}
    /\ ncalls + 1 \in CallNumbers
    /\ \E len \in 1..MaxLen :
        LET e == ForwardEntry(self, len)
            so == SizeO(e.self, e.padding, e.size_i)
            zerosRaises == \E x \in 2..Len(so) : so[x] < 0
        IN  /\ input' = len
            /\ self' = e.self
            /\ padding' = e.padding
            /\ size_i' = e.size_i
            /\ size_o' = so
            /\ frame_results' = [f \in 0..(At(so, 0) - 1) |-> 0]
            /\ empty_frames' = [f \in 0..(At(so, 0) - 1) |-> 0]
            /\ heap' = (0 :> ZeroTensor(self))
            /\ pc' = IF zerosRaises THEN "raised" ELSE "loop"
            /\ error' = IF zerosRaises THEN "RuntimeError" ELSE "none"
    /\ ncalls' = ncalls + 1
    /\ i' = 0
    /\ j' = 0
    /\ recorded' = {}
    /\ prev' = IF pc = "done" THEN [input |-> input, result |-> result] ELSE prev
    /\ result' = NoTensor
    /\ UNCHANGED call

\* one iteration of the double loop over (i, j)
LoopStep ==
    /\ pc = "loop"
    /\ i < At(self.kernel_size, 0)
    /\ LET o == OutFrame(self, size_i, size_o, i, j)
           c == ChildApply(self, size_i, i, j)
           r == RecordFrame(frame_results, empty_frames, heap, o.out_frame,
                            FrameRef(size_i, i, j), c.val)
           last == j + 1 >= At(size_i, 0)
       IN  IF o.skip
           THEN /\ UNCHANGED <<frame_results, empty_frames, heap, recorded, pc, error>>
                /\ i' = IF last THEN i + 1 ELSE i
                /\ j' = IF last THEN 0 ELSE j + 1
           ELSE IF ~c.ok
           THEN /\ pc' = "raised"
                /\ error' = "RuntimeError"
                /\ UNCHANGED <<frame_results, empty_frames, heap, recorded, i, j>>
           ELSE /\ frame_results' = r.frame_results
                /\ empty_frames' = r.empty_frames
                /\ heap' = r.heap
                /\ recorded' = recorded \cup {<<i, j, o.out_frame>>}
                /\ i' = IF last THEN i + 1 ELSE i
                /\ j' = IF last THEN 0 ELSE j + 1
                /\ UNCHANGED <<pc, error>>
    /\ UNCHANGED <<call, self, ncalls, input, padding, size_i, size_o, result, prev>>

\* after the loop: stack the frames (torch.stack raises on an empty list),
\* add the bias, return
Finish ==
    /\ pc = "loop"
    /\ i = At(self.kernel_size, 0)
    /\ IF DOMAIN frame_results = {}
       THEN /\ pc' = "raised"
            /\ error' = "RuntimeError"
            /\ result' = NoTensor
       ELSE /\ pc' = "done"
            /\ error' = "none"
            /\ result' = AddBias(self, Stack(frame_results, heap))
    /\ UNCHANGED <<call, self, ncalls, input, padding, size_i, size_o, i, j,
                   frame_results, empty_frames, heap, recorded, prev>>

Next == Construct \/ ForwardBegin \/ LoopStep \/ Finish

Spec == Init /\ [][Next]_vars

\* ------------------------------------------------------------ vocabulary
\* a constructor call whose tuple lengths or dilation the assertions reject
BadConfig(a) ==
    \/ Len(a.kernel_size) # a.num_dims
    \/ Len(a.stride) # a.num_dims
    \/ Len(a.padding) # a.num_dims
    \/ a.dilation # 1

Constructed == pc \notin {"new", "failed"}

K0 == At(self.kernel_size, 0)
S0 == At(self.stride, 0)
P0 == At(self.padding, 0)

\* the bag of the child outputs recorded so far into frame f
RecordedInto(f) == SetToBag({<<r[1], r[2]>> : r \in {q \in recorded : q[3] = f}})

\* how many slices child ki contributed to tensor t
Contributions(t, ki) ==
    Cardinality({e \in BagToSet(t.conv) : e[1] = ki})

\* ------------------------------------------------------------------ claims

\* C1: in ConvNd.forward at rank 0 with L + 2p >= k, the (kernel offset,
\* padded-input position) pairs accumulated into output frame o are exactly
\* {(i, o*s + i) : 0 <= i < k}, for every o in [0, size_o[0]).
C1_StrideGrid ==
    (pc = "done" /\ self.cls = "ConvNd" /\ self.rank = 0 /\ input + 2 * P0 >= K0)
    => /\ DOMAIN result = 0..(At(size_o, 0) - 1)
       /\ \A o \in DOMAIN result :
            result[o].conv = SetToBag({<<ki, o * S0 + ki>> : ki \in 0..(K0 - 1)})

C1_Witness ==
    /\ pc = "done" /\ self.cls = "ConvNd" /\ self.rank = 0
    /\ K0 = 2 /\ S0 = 2 /\ P0 = 1 /\ input = 3
    /\ Cardinality(DOMAIN result) = 2

\* C2: in ConvTransposeNd.forward the output of child i on slice j is
\* accumulated into frame j*stride[0] + i - padding[0] whenever that index is
\* in [0, size_o[0]), and into no other frame.
C2_TransposedMapping ==
    (pc = "done" /\ self.cls = "ConvTransposeNd")
    => \A o \in DOMAIN result :
         result[o].conv =
            SetToBag({e \in (0..(K0 - 1)) \X (0..(input - 1)) :
                         e[2] * S0 + e[1] - P0 = o})

\* C3: the number of stacked frames is floor((in_len + 2*pad - k)/stride + 1)
\* for ConvNd and (in_len - 1)*stride - 2*pad + k for ConvTransposeNd, in_len
\* being the caller's input length, whenever that value is positive.
C3_Expected ==
    IF self.cls = "ConvNd"
    THEN ((input + 2 * P0 - K0) \div S0) + 1
    ELSE (input - 1) * S0 - 2 * P0 + K0

C3_FrameCount ==
    (pc \in {"loop", "done"} /\ C3_Expected > 0)
    => /\ DOMAIN frame_results = 0..(C3_Expected - 1)
       /\ pc = "done" => DOMAIN result = 0..(C3_Expected - 1)

C3_Witness ==
    /\ pc = "done" /\ self.cls = "ConvTransposeNd"
    /\ K0 = 3 /\ S0 = 2 /\ P0 = 1 /\ input = 2
    /\ Cardinality(DOMAIN result) = 3

\* C4: with use_bias the constructed instance holds the bias, no child is built
\* with bias, and a completed forward has added the bias of each channel to
\* every output element exactly once.
C4_BiasOnce ==
    (Constructed /\ self.use_bias)
    => /\ self.bias
       /\ \A x \in DOMAIN self.conv_layers : ~self.conv_layers[x].bias
       /\ pc = "done" =>
            \A f \in DOMAIN result : \A c \in Channels(self) : result[f].bias[c] = 1

C4_Witness ==
    /\ pc = "done" /\ self.use_bias /\ self.out_channels = 2 /\ K0 = 3
    /\ \E f \in DOMAIN result :
         BagCardinality(result[f].conv) = 3 /\ result[f].bias = [c \in 0..1 |-> 1]

C6_Idempotent ==
    [][Constructed =>
        /\ self' = self
        /\ (pc' = "done" /\ prev'.result # NoTensor /\ prev'.input = input')
           => result' = prev'.result]_vars

C6_Witness ==
    /\ pc = "done" /\ ncalls = 2 /\ self.cls = "ConvNd" /\ self.rank = 0
    /\ P0 = 1 /\ K0 = 3 /\ prev.input = input /\ prev.result = result
    /\ self.padding = call.padding

\* C7: a valid configuration with num_dims = 1 constructs, and the primitive
\* selected for it is the 1D one.
C7_OneDim ==
    (pc # "new" /\ call.num_dims = 1 /\ ~BadConfig(call))
    => /\ pc # "failed"
       /\ self.conv_f \in {"Conv1d", "ConvTranspose1d"}
       /\ \A x \in DOMAIN self.conv_layers :
            PrimitiveDims(self.conv_layers[x].cls) = 1

\* C8: a valid configuration with num_dims >= 2 constructs a tree whose root
\* owns kernel_size[0] children, each a nested instance of num_dims - 1 with
\* the tuple tails and rank - 1 while num_dims - 1 > 3, and otherwise the base
\* primitive of num_dims - 1 spatial dimensions.
C8_Tree ==
    (pc # "new" /\ call.num_dims >= 2 /\ ~BadConfig(call))
    => /\ pc # "failed"
       /\ DOMAIN self.conv_layers = 1..K0
       /\ \A x \in DOMAIN self.conv_layers :
            LET child == self.conv_layers[x]
            IN  IF self.num_dims - 1 > 3
                THEN /\ ~child.leaf
                     /\ child.num_dims = self.num_dims - 1
                     /\ child.kernel_size = Rest(self.kernel_size)
                     /\ child.stride = Rest(self.stride)
                     /\ child.padding = Rest(self.padding)
                     /\ child.rank = self.rank - 1
                ELSE /\ child.leaf
                     /\ PrimitiveDims(child.cls) = self.num_dims - 1

\* C9: a ConvNd instance with rank < 0 does not pad, and every output frame
\* of its forward receives exactly one contribution from each kernel offset.
C9_InnerRank ==
    (pc = "done" /\ self.cls = "ConvNd" /\ self.rank < 0)
    => /\ At(size_i, 0) = input
       /\ \A o \in DOMAIN result : \A ki \in 0..(K0 - 1) :
            Contributions(result[o], ki) = 1

\* C10: after any prefix of the (i, j) iteration the tensor held for frame f
\* is the sum of exactly the child outputs recorded so far into f, so a frame
\* never recorded holds zeros and recording into one frame changes no other;
\* the stacked output has all size_o[0] frames.
C10_Accumulator ==
    (pc \in {"loop", "done"})
    => /\ \A f \in DOMAIN frame_results :
            /\ heap[frame_results[f]].conv = RecordedInto(f)
            /\ empty_frames[f] = 0 => heap[frame_results[f]] = ZeroTensor(self)
       /\ pc = "done" =>
            /\ DOMAIN result = 0..(At(size_o, 0) - 1)
            /\ \A f \in DOMAIN result : result[f].conv = RecordedInto(f)

C10_Witness ==
    /\ pc = "done"
    /\ \E f \in DOMAIN result :
         empty_frames[f] = 0 /\ result[f].conv = EmptyBag /\ frame_results[f] = 0
    /\ \E f \in DOMAIN result : BagCardinality(result[f].conv) >= 2

=============================================================================
